---------------------------- MODULE Spec2Model ----------------------------
(***************************************************************************)
(* A model of the FibreField PWA icon generator, scripts/generate_icons.py,*)
(* and of the Archon scripts of the project (archon_mcp_setup.py,          *)
(* archon_activate.py, create_initial_tasks.py, .archon/register_agents.py *)
(* and test_archon_integration_simple.py), which share the files of the    *)
(* project directory and the knowledge store.                              *)
(*                                                                         *)
(* The four composers (create_fiber_icon, create_capture_icon,             *)
(* create_assignments_icon, create_sync_icon) are modelled as the sequence *)
(* of ImageDraw calls each issues on the canvas it creates; the export     *)
(* pipeline generate_all_icons is modelled statement by statement.         *)
(*                                                                         *)
(* Coordinates are fixed-point numbers in units of 1/U pixel, so that the  *)
(* float coordinates the composers compute with math.cos and math.sin keep *)
(* two decimals.  Trigonometric values are scaled by T.                    *)
(*                                                                         *)
(* Pillow's ImageDraw on an "RGBA" image writes the ink, alpha included,   *)
(* into every pixel of a shape (it does not blend); only text is blended   *)
(* through the glyph mask.  Which pixels a shape covers is modelled by a   *)
(* pair of tests: MustCover (the pixel is surely written) and MayCover     *)
(* (the pixel may be written, depending on the rasteriser's rounding).     *)
(***************************************************************************)
EXTENDS Integers, Sequences, FiniteSets

VARIABLES
    pc,        \* position of generate_all_icons
    idx,       \* index of the `for size in sizes` loop (1-based)
    call,      \* the composer activation in progress, or NoCall
    calls,     \* the composer activations started so far, in order
    canvases,  \* every Image created so far, by id (its index)
    dirExists, \* whether icons_dir exists (the script never creates it)
    files,     \* names of the files present in icons_dir
    writes,    \* the names saved by this run, in order
    stdout,    \* the lines printed, in order
    exitCode,  \* the process exit status, NoExit while it runs
    pillow,    \* how the installed Pillow renders the label: the metrics of
               \* its default font and whether its text calls raise
    project,   \* the files of the project directory the Archon scripts share
    script,    \* the Archon script in progress, or NoScript
    host,      \* the project path, the scripts run so far, the uuids drawn
    store,     \* the tables of the Archon knowledge store
    archon     \* the files register_agents generates in .archon

vars == <<pc, idx, call, calls, canvases, dirExists, files, writes, stdout, exitCode, pillow, project, script, host, store, archon>>

---------------------------------------------------------------------------
(* Bounds of the model                                                     *)

\* composer sizes explored by SpecCompose: -MaxNeg .. MaxSize
MaxNeg == 2
MaxSize == 130

SizeDomain == (0 - MaxNeg)..MaxSize

---------------------------------------------------------------------------
(* Arithmetic helpers                                                      *)

\* fixed-point unit of a coordinate (1/U pixel)
U == 100
\* scale of the trigonometric tables
T == 10000

Max(a, b) == IF a >= b THEN a ELSE b
Min(a, b) == IF a <= b THEN a ELSE b

\* int(n * p/q) for the float products the composers truncate, n >= 0.
\* Python's int(n * 0.7) is one less than n*7 \div 10 for the n below, where
\* the product of n and the double nearest to 0.7 rounds below the integer.
TruncBelow07 == {90, 170, 180, 330, 340, 350, 360, 650, 660, 670, 680, 690,
                 700, 710, 720, 730}
IntFrac(n, p, q) ==
    IF p = 7 /\ q = 10 /\ n \in TruncBelow07
    THEN (n * p) \div q - 1
    ELSE (n * p) \div q

\* (a * t) / T for a trigonometric value t scaled by T
Trig(a, t) == (a * t) \div T

\* cos and sin of multiples of 5 degrees, scaled by T
COS5 == <<10000, 9962, 9848, 9659, 9397, 9063, 8660, 8192, 7660, 7071,
          6428, 5736, 5000, 4226, 3420, 2588, 1736, 872, 0>>
Cos(deg) ==
    LET d == deg % 360
    IN  IF d <= 90 THEN COS5[d \div 5 + 1]
        ELSE IF d <= 180 THEN 0 - COS5[(180 - d) \div 5 + 1]
        ELSE IF d <= 270 THEN 0 - COS5[(d - 180) \div 5 + 1]
        ELSE COS5[(360 - d) \div 5 + 1]
Sin(deg) == Cos(deg + 270)

\* cos and sin of t * math.pi * 1.5 for the 20 samples t of np.linspace(0, 1, 20)
SpiralCos == <<10000, 9694, 8795, 7357, 5469, 3247, 826, -1646, -4017, -6142,
               -7891, -9158, -9864, -9966, -9458, -8372, -6773, -4759, -2455, 0>>
SpiralSin == <<0, 2455, 4759, 6773, 8372, 9458, 9966, 9864, 9158, 7891,
               6142, 4017, 1646, -826, -3247, -5469, -7357, -8795, -9694, -10000>>

---------------------------------------------------------------------------
(* Colours and draw operations                                             *)

primary_blue   == <<59, 130, 246>>
secondary_blue == <<37, 99, 235>>
light_blue     == <<147, 197, 253>>
white          == <<255, 255, 255>>
gray           == <<107, 114, 128>>

NoColor == <<>>
\* an RGB tuple is an opaque colour; (*rgb, alpha) carries its own alpha
RGBA(rgb, alpha) == <<rgb[1], rgb[2], rgb[3], alpha>>
Opaque(rgb) == RGBA(rgb, 255)
Transparent == <<0, 0, 0, 0>>

\* One ImageDraw call.  box is [x0, y0, x1, y1] (the two end points of a line),
\* pts the vertices of a polygon, all in 1/U pixel; width and corner are the
\* width= and radius= arguments in pixels (0 when not given).
Op(shape, part, box, pts, fill, outline, width, corner) ==
    [shape |-> shape, part |-> part, box |-> box, pts |-> pts, fill |-> fill,
     outline |-> outline, width |-> width, corner |-> corner]

Ellipse(part, box, fill, outline, width) ==
    Op("ellipse", part, box, <<>>, fill, outline, width, 0)
Line(part, box, fill, width) ==
    Op("line", part, box, <<>>, fill, NoColor, width, 0)
Rectangle(part, box, fill, outline, width) ==
    Op("rectangle", part, box, <<>>, fill, outline, width, 0)
RoundedRectangle(part, box, corner, fill, outline, width) ==
    Op("rounded_rectangle", part, box, <<>>, fill, outline, width, corner)
Polygon(part, pts, fill) ==
    Op("polygon", part, <<>>, pts, fill, NoColor, 0, 0)
Text(part, box, fill) ==
    Op("text", part, box, <<>>, fill, NoColor, 0, 0)

\* the square [c - r, c - r, c + r, c + r] around an integer centre, in 1/U pixel
Square(cx, cy, r) == <<(cx - r) * U, (cy - r) * U, (cx + r) * U, (cy + r) * U>>

\* the concatenation of the sequences f[1] .. f[n]
RECURSIVE Concat(_, _)
Concat(f, n) == IF n = 0 THEN <<>> ELSE Concat(f, n - 1) \o f[n]

---------------------------------------------------------------------------
(* create_fiber_icon                                                       *)

LabelMinSize == 128
center(size) == size \div 2

\* the proportions create_fiber_icon derives from size; radius is int(size // 2.5)
Fiber(size) ==
    LET radius == (size * 2) \div 5
    IN  [radius |-> radius,
         inner_radius |-> IntFrac(radius, 85, 100),
         cable_width |-> Max(2, size \div 40),
         node_radius |-> IntFrac(radius, 20, 100),
         point_radius |-> IntFrac(radius, 65, 100),
         point_size |-> IntFrac(radius, 8, 100)]

\* int(255 * (1 - i / radius) * 0.1): the floor of 255 (radius - i) / (10 radius),
\* but one less where that quotient is exactly 1, 9 or 18 (the float product
\* falls just below the integer)
GlowAlpha(i, r) ==
    LET q == (255 * (r - i)) \div (10 * r)
        exact == (255 * (r - i)) % (10 * r) = 0
    IN  IF exact /\ q \in {1, 9, 18} THEN q - 1 ELSE q

\* for i in range(radius, 0, -1): draw.ellipse(..., fill=(*primary_blue, alpha))
GlowOps(size) ==
    LET r == Fiber(size).radius
        c == center(size)
    IN  [k \in 1..Max(r, 0) |->
            LET i == r - k + 1
            IN  Ellipse("glow", Square(c, c, i),
                        RGBA(primary_blue, GlowAlpha(i, r)), NoColor, 0)]

\* a background disk as small as the inner disk
BackgroundInsideOps(size) ==
    <<Ellipse("background", Square(center(size), center(size), Fiber(size).inner_radius),
              Opaque(primary_blue), NoColor, 0)>>

BackgroundOps(size) ==
    <<Ellipse("background", Square(center(size), center(size), Fiber(size).radius),
              Opaque(primary_blue), NoColor, 0)>>

InnerOps(size) ==
    <<Ellipse("inner", Square(center(size), center(size), Fiber(size).inner_radius),
              Opaque(secondary_blue), NoColor, 0)>>

angle_offsets == <<0, 60, 120, 180, 240, 300>>
Samples == 20

\* points[k] of the strand at angle_offset, k in 1..20 (t = (k - 1) / 19):
\* spiral_radius = inner_radius * 0.3 + t * inner_radius * 0.4, at the angle
\* angle_rad + t * math.pi * 1.5
SpiralRadius(size, k) == (Fiber(size).inner_radius * (57 + 4 * (k - 1)) * U) \div 190
SpiralPoint(size, angle_offset, k) ==
    LET sr == SpiralRadius(size, k)
        co == (Cos(angle_offset) * SpiralCos[k] - Sin(angle_offset) * SpiralSin[k]) \div T
        si == (Sin(angle_offset) * SpiralCos[k] + Cos(angle_offset) * SpiralSin[k]) \div T
    IN  <<center(size) * U + Trig(sr, co), center(size) * U + Trig(sr, si)>>

\* int(255 * (1 - i / len(points)) * 0.8) for the segment i in 0..18
StrandAlpha(i) == (255 * (Samples - i) * 8) \div (Samples * 10)

StrandOps(size, angle_offset) ==
    [j \in 1..(Samples - 1) |->
        LET p == SpiralPoint(size, angle_offset, j)
            q == SpiralPoint(size, angle_offset, j + 1)
        IN  Line("strand", <<p[1], p[2], q[1], q[2]>>,
                 RGBA(light_blue, StrandAlpha(j - 1)), Fiber(size).cable_width)]

StrandsOps(size) ==
    Concat([a \in 1..Len(angle_offsets) |-> StrandOps(size, angle_offsets[a])],
           Len(angle_offsets))

NodeOps(size) ==
    <<Ellipse("node", Square(center(size), center(size), Fiber(size).node_radius),
              Opaque(white), Opaque(secondary_blue), Max(1, size \div 60))>>

dot_angles == <<0, 45, 90, 135, 180, 225, 270, 315>>

\* the eight dots, and the central node drawn once more over them
DotsThenNodeOps(size) ==
    [a \in 1..Len(dot_angles) |->
        LET x == center(size) * U + Trig(Fiber(size).point_radius * U, Cos(dot_angles[a]))
            y == center(size) * U + Trig(Fiber(size).point_radius * U, Sin(dot_angles[a]))
            ps == Fiber(size).point_size * U
        IN  Ellipse("dot", <<x - ps, y - ps, x + ps, y + ps>>,
                    Opaque(light_blue), Opaque(white), Max(1, size \div 80))]
    \o NodeOps(size)

DotOps(size) ==
    [a \in 1..Len(dot_angles) |->
        LET x == center(size) * U + Trig(Fiber(size).point_radius * U, Cos(dot_angles[a]))
            y == center(size) * U + Trig(Fiber(size).point_radius * U, Sin(dot_angles[a]))
            ps == Fiber(size).point_size * U
        IN  Ellipse("dot", <<x - ps, y - ps, x + ps, y + ps>>,
                    Opaque(light_blue), Opaque(white), Max(1, size \div 80))]

\* The text bounding boxes ImageFont.load_default() may give "FF": the glyph
\* metrics belong to the font Pillow ships, <<text_width, text_height>>.
TextMetrics == {<<12, 11>>, <<11, 8>>}

\* What the try block does under the installed Pillow: it runs to its end
\* ("ok"), raises before anything is drawn ("early": load_default, textbbox or
\* the first draw.text) or raises in the second draw.text ("late")
Pillows ==
    {[metrics |-> m, label |-> l] : m \in TextMetrics, l \in {"ok", "late"}}
    \cup {[metrics |-> <<0, 0>>, label |-> "early"]}

\* draw.text((text_x + 1, text_y + 1), ..., fill=gray)
ShadowOps(size, m) ==
    LET text_x == center(size) - m[1] \div 2
        text_y == center(size) - m[2] \div 2
    IN  <<Text("shadow", <<(text_x + 1) * U, (text_y + 1) * U,
                           (text_x + 1 + m[1]) * U, (text_y + 1 + m[2]) * U>>,
               Opaque(gray))>>

\* a label step that leaves the white text out
LabelMissingOps(size, m) == <<>>

\* draw.text((text_x, text_y), ..., fill=white)
LabelOps(size, m) ==
    LET text_x == center(size) - m[1] \div 2
        text_y == center(size) - m[2] \div 2
    IN  <<Text("label", <<text_x * U, text_y * U,
                          (text_x + m[1]) * U, (text_y + m[2]) * U>>,
               Opaque(white))>>

\* the except branch: two crossing lines
CrossOps(size) ==
    LET c == center(size)
        line_length == IntFrac(Fiber(size).radius, 30, 100)
        w == Max(2, size \div 30)
    IN  <<Line("cross", <<(c - line_length) * U, c * U, (c + line_length) * U, c * U>>,
               Opaque(white), w),
          Line("cross", <<c * U, (c - line_length) * U, c * U, (c + line_length) * U>>,
               Opaque(white), w)>>

---------------------------------------------------------------------------
(* create_capture_icon                                                     *)

\* the proportions create_capture_icon derives from size
Capture(size) ==
    LET camera_width == IntFrac(size, 7, 10)
        camera_height == IntFrac(size, 5, 10)
        camera_y == center(size) - camera_height \div 2
        lens_radius == IntFrac(size, 15, 100)
        vf_width == IntFrac(size, 2, 10)
        vf_height == IntFrac(size, 1, 10)
    IN  [camera_width |-> camera_width,
         camera_height |-> camera_height,
         camera_x |-> center(size) - camera_width \div 2,
         camera_y |-> camera_y,
         lens_radius |-> lens_radius,
         inner_lens |-> IntFrac(lens_radius, 6, 10),
         vf_width |-> vf_width,
         vf_height |-> vf_height,
         vf_x |-> center(size) - vf_width \div 2,
         vf_y |-> camera_y - vf_height - IntFrac(size, 5, 100)]

BodyOps(size) ==
    <<RoundedRectangle("body",
          <<Capture(size).camera_x * U, Capture(size).camera_y * U,
            (Capture(size).camera_x + Capture(size).camera_width) * U,
            (Capture(size).camera_y + Capture(size).camera_height) * U>>,
          size \div 20, Opaque(primary_blue), Opaque(white), 2)>>

LensOps(size) ==
    <<Ellipse("lens", Square(center(size), center(size), Capture(size).lens_radius),
              Opaque(gray), Opaque(white), 2)>>

InnerLensOps(size) ==
    <<Ellipse("inner_lens", Square(center(size), center(size), Capture(size).inner_lens),
              Opaque(white), NoColor, 0)>>

\* a viewfinder set half its height lower, into the top edge of the body
ViewfinderLowOps(size) ==
    <<RoundedRectangle("viewfinder",
          <<Capture(size).vf_x * U, (Capture(size).camera_y - Capture(size).vf_height \div 2) * U,
            (Capture(size).vf_x + Capture(size).vf_width) * U,
            (Capture(size).camera_y + Capture(size).vf_height \div 2) * U>>,
          size \div 40, Opaque(primary_blue), Opaque(white), 1)>>

ViewfinderOps(size) ==
    <<RoundedRectangle("viewfinder",
          <<Capture(size).vf_x * U, Capture(size).vf_y * U,
            (Capture(size).vf_x + Capture(size).vf_width) * U, (Capture(size).vf_y + Capture(size).vf_height) * U>>,
          size \div 40, Opaque(primary_blue), Opaque(white), 1)>>

---------------------------------------------------------------------------
(* create_assignments_icon                                                 *)

Rows == 4
CheckedRows == 2
\* the proportions create_assignments_icon derives from size; item_y,
\* checkbox_y and line_y are those of row i
Assignments(size) ==
    LET doc_width == IntFrac(size, 6, 10)
        doc_height == IntFrac(size, 8, 10)
        doc_x == center(size) - doc_width \div 2
        doc_y == center(size) - doc_height \div 2
        item_height == doc_height \div 6
        item_margin == size \div 30
        item_y == [i \in 0..(Rows - 1) |-> doc_y + item_margin + i * (item_height + item_margin)]
        checkbox_size == size \div 20
        checkbox_x == doc_x + item_margin
    IN  [doc_width |-> doc_width, doc_height |-> doc_height,
         doc_x |-> doc_x, doc_y |-> doc_y,
         item_height |-> item_height, item_margin |-> item_margin,
         item_y |-> item_y,
         checkbox_size |-> checkbox_size,
         checkbox_x |-> checkbox_x,
         checkbox_y |-> [i \in 0..(Rows - 1) |-> item_y[i] + (item_height - checkbox_size) \div 2],
         line_x |-> checkbox_x + checkbox_size + item_margin,
         line_y |-> [i \in 0..(Rows - 1) |-> item_y[i] + item_height \div 2],
         line_width |-> doc_width - checkbox_size - 3 * item_margin]

\* the document drawn as an outline only, its fill left out
DocumentOutlineOps(size) ==
    <<RoundedRectangle("document",
          <<Assignments(size).doc_x * U, Assignments(size).doc_y * U,
            (Assignments(size).doc_x + Assignments(size).doc_width) * U, (Assignments(size).doc_y + Assignments(size).doc_height) * U>>,
          size \div 20, NoColor, Opaque(primary_blue), 2)>>

DocumentOps(size) ==
    <<RoundedRectangle("document",
          <<Assignments(size).doc_x * U, Assignments(size).doc_y * U,
            (Assignments(size).doc_x + Assignments(size).doc_width) * U, (Assignments(size).doc_y + Assignments(size).doc_height) * U>>,
          size \div 20, Opaque(white), Opaque(primary_blue), 2)>>

CheckboxOps(size, i) ==
    <<Rectangle("checkbox",
          <<Assignments(size).checkbox_x * U, Assignments(size).checkbox_y[i] * U,
            (Assignments(size).checkbox_x + Assignments(size).checkbox_size) * U,
            (Assignments(size).checkbox_y[i] + Assignments(size).checkbox_size) * U>>,
          IF i < CheckedRows THEN Opaque(light_blue) ELSE Opaque(white),
          Opaque(primary_blue), 1)>>

\* the two strokes of the checkmark; checkbox_size * 0.2 pixel is checkbox_size * 20 / U
CheckmarkOps(size, i) ==
    LET cx == Assignments(size).checkbox_x * U
        cy == Assignments(size).checkbox_y[i] * U
        cs == Assignments(size).checkbox_size
        w == Max(1, size \div 60)
    IN  <<Line("checkmark", <<cx + cs * 20, cy + cs * 50, cx + cs * 50, cy + cs * 80>>,
               Opaque(primary_blue), w),
          Line("checkmark", <<cx + cs * 50, cy + cs * 80, cx + cs * 80, cy + cs * 30>>,
               Opaque(primary_blue), w)>>

TextLineOps(size, i) ==
    <<Rectangle("text_line",
          <<Assignments(size).line_x * U, (Assignments(size).line_y[i] - 1) * U,
            (Assignments(size).line_x + Assignments(size).line_width) * U, (Assignments(size).line_y[i] + 1) * U>>,
          Opaque(primary_blue), NoColor, 0)>>

\* a row whose checkmark is drawn whatever the row
RowOpsAllChecked(size, i) ==
    CheckboxOps(size, i) \o CheckmarkOps(size, i) \o TextLineOps(size, i)

\* one iteration of `for i in range(4)`
RowOps(size, i) ==
    CheckboxOps(size, i)
    \o (IF i < CheckedRows THEN CheckmarkOps(size, i) ELSE <<>>)
    \o TextLineOps(size, i)

---------------------------------------------------------------------------
(* create_sync_icon                                                        *)

start_angle == 45
end_angle == 315
ArcStep == 5
InnerStart == 225
InnerStop == 585
\* cos(0.5) and sin(0.5), the spread of an arrow head in radians, scaled by T
HeadCos == 8776
HeadSin == 4794

\* the proportions create_sync_icon derives from size
Sync(size) ==
    LET radius == IntFrac(size, 3, 10)
    IN  [radius |-> radius,
         inner_radius |-> IntFrac(radius, 6, 10),
         arrow_width |-> Max(3, size \div 20),
         head_size |-> size \div 15]

\* range(first, stop, step) as a sequence
Range(first, stop, step) ==
    [k \in 1..(IF stop > first THEN (stop - first + step - 1) \div step ELSE 0)
        |-> first + (k - 1) * step]

\* (center + r cos(angle), center + r sin(angle)) for an angle in degrees
ArcPoint(size, r, angle) ==
    <<center(size) * U + Trig(r * U, Cos(angle)), center(size) * U + Trig(r * U, Sin(angle))>>

points_top(size) ==
    LET angles == Range(start_angle, end_angle, ArcStep)
    IN  [k \in 1..Len(angles) |-> ArcPoint(size, Sync(size).radius, angles[k])]

\* the sample angle used as it comes from the range, not normalised
angle_raw(angle) == angle

angle_norm(angle) == IF angle >= 360 THEN angle - 360 ELSE angle

points_bottom(size) ==
    LET angles == Range(InnerStart, InnerStop, ArcStep)
    IN  [k \in 1..Len(angles) |->
            ArcPoint(size, Sync(size).inner_radius, angle_norm(angles[k]))]

\* for i in range(len(points) - 1): draw.line([points[i], points[i + 1]], ...)
ArcOps(part, points, rgb, w) ==
    [k \in 1..(Len(points) - 1) |->
        Line(part, <<points[k][1], points[k][2], points[k + 1][1], points[k + 1][2]>>,
             Opaque(rgb), w)]

OuterArcOps(size) == ArcOps("outer_arc", points_top(size), primary_blue, Sync(size).arrow_width)
InnerArcOps(size) == ArcOps("inner_arc", points_bottom(size), light_blue, Sync(size).arrow_width)

\* cos and sin of (angle degrees + s * 0.5 radians), s = 1 or -1, scaled by T
CosSpread(angle, s) == (Cos(angle) * HeadCos - s * Sin(angle) * HeadSin) \div T
SinSpread(angle, s) == (Sin(angle) * HeadCos + s * Cos(angle) * HeadSin) \div T

\* the arrow head of the outer arc: its apex is points_top[-1], the two other
\* vertices are head_size back from it at end_angle +/- 0.5 rad
OuterHeadOps(size) ==
    LET pts == points_top(size)
        e == pts[Len(pts)]
        hs == Sync(size).head_size * U
    IN  <<Polygon("outer_head",
              <<e,
                <<e[1] - Trig(hs, CosSpread(end_angle, 1)), e[2] - Trig(hs, SinSpread(end_angle, 1))>>,
                <<e[1] - Trig(hs, CosSpread(end_angle, -1)), e[2] - Trig(hs, SinSpread(end_angle, -1))>> >>,
              Opaque(primary_blue))>>

\* the arrow head of the inner arc: its apex is points_bottom[0], the two other
\* vertices are head_size ahead of it at 225 degrees +/- 0.5 rad
InnerHeadOps(size) ==
    LET pts == points_bottom(size)
        b == pts[1]
        hs == Sync(size).head_size * U
    IN  <<Polygon("inner_head",
              <<b,
                <<b[1] + Trig(hs, CosSpread(InnerStart, 1)), b[2] + Trig(hs, SinSpread(InnerStart, 1))>>,
                <<b[1] + Trig(hs, CosSpread(InnerStart, -1)), b[2] + Trig(hs, SinSpread(InnerStart, -1))>> >>,
              Opaque(light_blue))>>

---------------------------------------------------------------------------
(* The composers as functions of size: every op issued, in order           *)

LabelStepOps(size, pl) ==
    IF size < LabelMinSize THEN <<>>
    ELSE IF pl.label = "ok" THEN ShadowOps(size, pl.metrics) \o LabelOps(size, pl.metrics)
    ELSE (IF pl.label = "late" THEN ShadowOps(size, pl.metrics) ELSE <<>>) \o CrossOps(size)

create_fiber_icon(size, pl) ==
    GlowOps(size) \o BackgroundOps(size) \o InnerOps(size) \o StrandsOps(size)
    \o NodeOps(size) \o DotOps(size) \o LabelStepOps(size, pl)

create_capture_icon(size) ==
    BodyOps(size) \o LensOps(size) \o InnerLensOps(size) \o ViewfinderOps(size)

create_assignments_icon(size) ==
    DocumentOps(size) \o Concat([i \in 1..Rows |-> RowOps(size, i - 1)], Rows)

create_sync_icon(size) ==
    OuterArcOps(size) \o OuterHeadOps(size) \o InnerArcOps(size) \o InnerHeadOps(size)

ComposerOps(kind, size, pl) ==
    CASE kind = "fiber" -> create_fiber_icon(size, pl)
      [] kind = "capture" -> create_capture_icon(size)
      [] kind = "assignments" -> create_assignments_icon(size)
      [] kind = "sync" -> create_sync_icon(size)

---------------------------------------------------------------------------
(* The pixels of a canvas                                                  *)

\* the inks an op may write: its fill and its outline
OpInks(op) ==
    (IF op.fill = NoColor THEN {} ELSE {op.fill})
    \cup (IF op.outline = NoColor THEN {} ELSE {op.outline})

\* the bounding box of an op, in 1/U pixel (a polygon is a triangle)
BBox(op) ==
    IF op.shape = "polygon"
    THEN [c \in 1..4 |->
            LET k == IF c <= 2 THEN c ELSE c - 2
                a == op.pts[1][k]
                b == op.pts[2][k]
                d == op.pts[3][k]
            IN  IF c <= 2 THEN Min(a, Min(b, d)) ELSE Max(a, Max(b, d))]
    ELSE <<Min(op.box[1], op.box[3]), Min(op.box[2], op.box[4]),
           Max(op.box[1], op.box[3]), Max(op.box[2], op.box[4])>>

\* whether pixel (px, py) lies in box b grown by m on every side
InBox(b, m, px, py) ==
    /\ b[1] - m <= px * U /\ px * U <= b[3] + m
    /\ b[2] - m <= py * U /\ py * U <= b[4] + m

\* twice the distance of pixel (px, py) from the middle of box b, squared
Dist2(b, px, py) ==
    (2 * px * U - b[1] - b[3]) * (2 * px * U - b[1] - b[3])
    + (2 * py * U - b[2] - b[4]) * (2 * py * U - b[2] - b[4])

\* the pixel may be written by the op: it lies within one pixel of the shape
\* (within half the stroke width plus one pixel of a line's bounding box; for a
\* shape without fill, within the outline's width plus one pixel of the border)
MayCover(op, px, py) ==
    LET b == BBox(op)
        near == CASE op.shape = "ellipse" ->
                       /\ InBox(b, U, px, py)
                       /\ Dist2(b, px, py) <= (b[3] - b[1] + 2 * U) * (b[3] - b[1] + 2 * U)
                  [] op.shape = "line" -> InBox(b, (op.width * U) \div 2 + U, px, py)
                  [] OTHER -> InBox(b, U, px, py)
        deep == CASE op.shape = "ellipse" ->
                       /\ b[3] - b[1] >= 2 * (op.width + 1) * U
                       /\ Dist2(b, px, py) <
                            (b[3] - b[1] - 2 * (op.width + 1) * U)
                            * (b[3] - b[1] - 2 * (op.width + 1) * U)
                  [] op.shape \in {"rectangle", "rounded_rectangle"} ->
                       /\ b[1] + (op.width + 1) * U < px * U
                       /\ px * U < b[3] - (op.width + 1) * U
                       /\ b[2] + (op.width + 1) * U < py * U
                       /\ py * U < b[4] - (op.width + 1) * U
                  [] OTHER -> FALSE
    IN  near /\ (op.fill = NoColor => ~deep)

\* the pixel is surely written by the op: it lies at least one pixel inside a
\* filled shape (outside the corner squares of a rounded rectangle)
MustCover(op, px, py) ==
    LET b == BBox(op)
    IN  /\ op.fill # NoColor
        /\ CASE op.shape = "ellipse" ->
                  /\ b[3] - b[1] >= 2 * U
                  /\ InBox(b, 0, px, py)
                  /\ Dist2(b, px, py) <= (b[3] - b[1] - 2 * U) * (b[3] - b[1] - 2 * U)
             [] op.shape = "rectangle" -> InBox(b, 0 - U, px, py)
             [] op.shape = "rounded_rectangle" ->
                  \/ InBox(<<b[1] + op.corner * U, b[2], b[3] - op.corner * U, b[4]>>,
                           0 - U, px, py)
                  \/ InBox(<<b[1], b[2] + op.corner * U, b[3], b[4] - op.corner * U>>,
                           0 - U, px, py)
             [] OTHER -> FALSE

\* the levels of a glyph mask the model tells apart: outside the glyph, on its
\* anti-aliased edge, inside it
MaskLevels == {0, 128, 255}

\* text is blended in through the glyph mask, every channel alike
Blend(old, ink, m) == [ch \in 1..4 |-> (old[ch] * (255 - m) + ink[ch] * m) \div 255]

\* the values a pixel may hold after one more op, from those it may hold
\* before.  A shape replaces the pixel by its ink, alpha included; text blends.
ColorStep(S, op, px, py) ==
    IF op.shape = "text"
    THEN IF MayCover(op, px, py)
         THEN {Blend(c, op.fill, m) : c \in S, m \in MaskLevels}
         ELSE S
    ELSE IF MustCover(op, px, py) THEN OpInks(op)
    ELSE IF MayCover(op, px, py) THEN S \cup OpInks(op)
    ELSE S

\* the values pixel (px, py) may hold after the first n ops on a new canvas,
\* whose pixels are all (0, 0, 0, 0)
RECURSIVE Colors(_, _, _, _)
Colors(ops, n, px, py) ==
    IF n = 0 THEN {Transparent}
    ELSE ColorStep(Colors(ops, n - 1, px, py), ops[n], px, py)

Alphas(ops, px, py) == {c[4] : c \in Colors(ops, Len(ops), px, py)}

---------------------------------------------------------------------------
(* The Archon scripts and the files they share                             *)

\* scripts run one after another in one behaviour of SpecArchon
MaxRuns == 2

\* every variable of the icon generator
Icons == <<pc, idx, call, calls, canvases, dirExists, files, writes, stdout, exitCode, pillow>>

\* the files of the project directory the scripts write or read
Files == {"CLAUDE.md", "mcp_config.json", "initial_tasks.json",
          "knowledge_index.json", "ARCHON_SETUP_REPORT.md", ".mcp/config.json"}

\* a JSON document as far as the scripts look into one: its kind ("dict" or
\* "list"), its len(), its keys, the keys of its "mcpServers" entry and the
\* kind of the items of a list
Doc(kind, len, keys, servers, items) ==
    [kind |-> kind, len |-> len, keys |-> keys, servers |-> servers, items |-> items]

\* a file: "absent", "text" (its words, in order) or "json" (its document)
FileOf(syntax, words, doc) == [syntax |-> syntax, words |-> words, doc |-> doc]
Absent == FileOf("absent", <<>>, Doc("none", 0, {}, {}, "none"))
TextFile(words) == FileOf("text", words, Doc("none", 0, {}, {}, "none"))

\* json.dump(doc, f, indent=2): the file holds the JSON text of doc
json_dump(doc) == FileOf("json", <<>>, doc)

\* json.loads(file.read_text()): the document of a JSON file; any other text
\* makes it raise, shown as a document of kind "invalid"
json_loads(file) ==
    IF file.syntax = "json" THEN file.doc ELSE Doc("invalid", 0, {}, {}, "none")

\* phrase in text, for a text and a phrase given as sequences of words
Contains(words, phrase) ==
    \E i \in 1..(Len(words) - Len(phrase) + 1) :
        SubSeq(words, i, i + Len(phrase) - 1) = phrase

\* the directory the scripts lie in, Path(__file__).parent, as its parts
ProjectPaths == {<<"C:", "Jarvis", "AI Workspace", "FibreField">>,
                 <<"home", "dev", "fibrefield-project">>}

\* ArchonMCPSetup.setup_mcp_config: the dictionary it dumps
mcp_config == Doc("dict", 2, {"mcpServers", "project_config"}, {"archon"}, "none")

\* the tasks wrapped in a dictionary of four entries
initial_tasks_wrapped ==
    Doc("dict", 4, {"project_id", "project_name", "created_at", "tasks"}, {}, "none")

\* ArchonMCPSetup.create_initial_tasks: the list fibre-001 .. fibre-005
initial_tasks == Doc("list", 5, {}, {}, "dict")

\* ArchonMCPSetup.create_knowledge_index: the list of five items
knowledge_items == Doc("list", 5, {}, {}, "dict")

\* archon_activate.create_claude_md: the words of claude_content that matter to
\* its readers: the headings, and the three values interpolated into the text
\* (PROJECT_ID, a uuid4; the time; PROJECT_PATH)
claude_content(path) ==
    <<"#", "CLAUDE.md", "-", "FibreField", "Project",
      "##", "ARCHON", "RAM", "INTEGRATION",
      "Project", "ID", "uuid4", "Activated", "Path">>
    \o path
    \o <<"archon:manage_task", "project_id", "uuid4",
         "Archon", "tasks", "for", "FibreField", "project", "uuid4">>

\* test_project_setup, the CLAUDE.md part
ClaudeMdCheck(fs) ==
    /\ fs["CLAUDE.md"].syntax # "absent"
    /\ Contains(fs["CLAUDE.md"].words, <<"ARCHON", "INTEGRATION">>)
    /\ Contains(fs["CLAUDE.md"].words, <<"fibrefield-project">>)

\* test_project_setup, the mcp_config.json part: config.get raises on a list
McpConfigCheck(fs) ==
    LET config == json_loads(fs["mcp_config.json"])
    IN  /\ fs["mcp_config.json"].syntax # "absent"
        /\ config.kind = "dict"
        /\ "archon" \in config.servers

MinTasks == 5

\* test_project_setup, the initial_tasks.json part
InitialTasksCheck(fs) ==
    LET tasks == json_loads(fs["initial_tasks.json"])
    IN  /\ fs["initial_tasks.json"].syntax # "absent"
        /\ tasks.kind \in {"dict", "list"}
        /\ tasks.len >= MinTasks

test_project_setup(fs) == ClaudeMdCheck(fs) /\ McpConfigCheck(fs) /\ InitialTasksCheck(fs)

\* test_project_knowledge: item.get raises unless every item is a dictionary
test_project_knowledge(fs) ==
    LET knowledge == json_loads(fs["knowledge_index.json"])
    IN  /\ fs["knowledge_index.json"].syntax # "absent"
        /\ knowledge.kind \in {"dict", "list"}
        /\ (knowledge.len = 0 \/ knowledge.items = "dict")

\* what GET /health may give: a status code, or 0 for an exception of requests
HealthAnswers == {200, 503, 0}
test_archon_services(status) == status = 200

test_workflow_commands == TRUE

\* the list `tests` of run_full_test
tests == <<"Archon Services", "Project Setup", "Workflow Commands", "Knowledge Base">>

\* result = test_func() for the k-th entry of tests
RunTest(k, fs, status) ==
    CASE k = 1 -> test_archon_services(status)
      [] k = 2 -> test_project_setup(fs)
      [] k = 3 -> test_workflow_commands
      [] k = 4 -> test_project_knowledge(fs)

\* success as soon as one check passed
OverallAny(results) == \E k \in 1..Len(results) : results[k]

\* passed == total
Overall(results) == Cardinality({k \in 1..Len(results) : results[k]}) = Len(results)

\* create_initial_tasks.main: the dictionary it dumps, the ten tasks being its
\* "tasks" entry
tasks_document ==
    Doc("dict", 4, {"project_id", "project_name", "created_at", "tasks"}, {}, "none")

\* the store: the rows of archon_ram_knowledge_sources (id and name), and the
\* source_id of every row of archon_ram_knowledge_items, in insertion order
EmptyStore == [sources |-> <<>>, items |-> <<>>]

\* PROJECT_NAME changed without the name the select asks for
PROJECT_TITLE == "FibreField PWA"

PROJECT_NAME == "FibreField Mobile PWA"

\* .eq('name', 'FibreField Mobile PWA'): the rows of the table with that name
Existing(rows) == SelectSeq(rows, LAMBDA row : row.name = "FibreField Mobile PWA")

\* the knowledge_items of add_to_archon_ram
KnowledgeItems == 5

\* .archon before register_agents runs: neither generated file is there.  The
\* SQL file is the sequence of its INSERT statements (table and id), the JSON
\* file the sequence of the ids of its records
NoRecords == [sql |-> <<>>, json |-> <<>>, written |-> {}]

\* the agents project_agents.yaml may list, over all its categories
MaxAgents == 2

\* str(uuid.uuid4()), the k-th value drawn after `drawn` others: a value no
\* earlier draw gave
uuid4(drawn, k) == drawn + k

Scripts == {"setup", "activate", "test", "tasks", "register"}

\* source_id is 0 for None; i counts the knowledge items gone through
NoScript == [name |-> "none", pc |-> "idle", results |-> <<>>, status |-> 0, ret |-> FALSE,
             source_id |-> 0, i |-> 0, agents |-> 0, records |-> <<>>, sql |-> <<>>]

\* the first statement of the main() of a script
FirstPc(name) ==
    CASE name = "setup" -> "mcp_config"
      [] name = "activate" -> "claude_md"
      [] name = "test" -> "checks"
      [] name = "tasks" -> "save"
      [] name = "register" -> "load"

\* python <script>.py in the project directory
Launch ==
    /\ script = NoScript
    /\ host.runs < MaxRuns
    /\ \E name \in Scripts :
          \E status \in (IF name = "test" THEN HealthAnswers ELSE {0}) :
              script' = [NoScript EXCEPT !.name = name, !.pc = FirstPc(name),
                                         !.status = status]
    /\ host' = [host EXCEPT !.runs = @ + 1]
    /\ UNCHANGED <<Icons, project, store, archon>>

At2(name, p) == script.name = name /\ script.pc = p

\* with open(project_path / name, 'w') as f: <write content>; open may raise,
\* and no script catches it
WriteFile(name, content, next) ==
    \E ok \in BOOLEAN :
        IF ok
        THEN /\ project' = [project EXCEPT ![name] = content]
             /\ script' = [script EXCEPT !.pc = next]
        ELSE /\ script' = [script EXCEPT !.pc = "raised"]
             /\ UNCHANGED project

SetupMcpConfig ==
    /\ At2("setup", "mcp_config")
    /\ WriteFile("mcp_config.json", json_dump(mcp_config), "initial_tasks")
    /\ UNCHANGED <<Icons, host, store, archon>>

SetupInitialTasks ==
    /\ At2("setup", "initial_tasks")
    /\ WriteFile("initial_tasks.json", json_dump(initial_tasks), "knowledge_index")
    /\ UNCHANGED <<Icons, host, store, archon>>

SetupKnowledgeIndex ==
    /\ At2("setup", "knowledge_index")
    /\ WriteFile("knowledge_index.json", json_dump(knowledge_items), "report")
    /\ UNCHANGED <<Icons, host, store, archon>>

SetupReport ==
    /\ At2("setup", "report")
    /\ WriteFile("ARCHON_SETUP_REPORT.md",
                 TextFile(<<"#", "Archon", "Integration", "Setup", "Report">>), "done")
    /\ UNCHANGED <<Icons, host, store, archon>>

\* create_claude_md()
ActivateClaudeMd ==
    /\ At2("activate", "claude_md")
    /\ WriteFile("CLAUDE.md", TextFile(claude_content(host.path)), "ram")
    /\ UNCHANGED <<Icons, host, store, archon>>

\* add_to_archon_ram returns to main: `source_id = add_to_archon_ram()`
RamReturn(s, value) == [s EXCEPT !.source_id = value, !.pc = "mcp"]

\* an insert of a knowledge item that raises, were it not in a try of its own:
\* the outer handler returns None
ItemInsertAborts(s) == RamReturn(s, 0)

\* an insert of a knowledge item raises: the handler of the loop body prints,
\* and the loop goes on
ItemInsertFailed(s) == [s EXCEPT !.i = @ + 1]

\* add_to_archon_ram() up to the select: the import, create_client or the
\* select may raise, and the outer handler then returns None
ActivateRam ==
    /\ At2("activate", "ram")
    /\ \E ok \in BOOLEAN :
          script' = IF ~ok THEN RamReturn(script, 0)
                    ELSE IF Existing(store.sources) # <<>>
                    THEN [script EXCEPT !.source_id = Existing(store.sources)[1].id,
                                        !.pc = "ram_items"]
                    ELSE [script EXCEPT !.pc = "ram_source"]
    /\ UNCHANGED <<Icons, host, project, store, archon>>

\* the else branch: a new id, and the insert of the source row, which may raise
ActivateRamSource ==
    /\ At2("activate", "ram_source")
    /\ host' = [host EXCEPT !.uuids = @ + 1]
    /\ \E ok \in BOOLEAN :
          IF ok
          THEN /\ store' = [store EXCEPT !.sources =
                               Append(@, [id |-> uuid4(host.uuids, 1), name |-> PROJECT_NAME])]
               /\ script' = [script EXCEPT !.source_id = uuid4(host.uuids, 1),
                                           !.pc = "ram_items"]
          ELSE /\ script' = RamReturn(script, 0)
               /\ UNCHANGED store
    /\ UNCHANGED <<Icons, project, archon>>

\* one iteration of `for item in knowledge_items`
ActivateRamItem ==
    /\ At2("activate", "ram_items")
    /\ script.i < KnowledgeItems
    /\ \E ok \in BOOLEAN :
          IF ok
          THEN /\ store' = [store EXCEPT !.items = Append(@, script.source_id)]
               /\ script' = [script EXCEPT !.i = @ + 1]
          ELSE /\ script' = ItemInsertFailed(script)
               /\ UNCHANGED store
    /\ UNCHANGED <<Icons, host, project, archon>>

\* the loop is exhausted: return source_id
ActivateRamDone ==
    /\ At2("activate", "ram_items")
    /\ script.i >= KnowledgeItems
    /\ script' = RamReturn(script, script.source_id)
    /\ UNCHANGED <<Icons, host, project, store, archon>>

\* create_mcp_config(): .mcp is made if missing, then config.json is written
ActivateMcpConfig ==
    /\ At2("activate", "mcp")
    /\ WriteFile(".mcp/config.json",
                 json_dump(Doc("dict", 3, {"project", "tools", "workflows"}, {}, "none")),
                 "done")
    /\ UNCHANGED <<Icons, host, store, archon>>

\* create_initial_tasks.main: initial_tasks.json is opened in the working
\* directory, here the project directory
TasksSave ==
    /\ At2("tasks", "save")
    /\ WriteFile("initial_tasks.json", json_dump(tasks_document), "done")
    /\ UNCHANGED <<Icons, host, store, archon>>

\* generate_agent_records(): one record for every agent of the loaded
\* configuration, each with a new id
generate_agent_records(agents, drawn) == [k \in 1..agents |-> uuid4(drawn, k)]

\* create_supabase_sql(), its statements: the insert of the project, then one
\* insert for every record generate_agent_records() gives it
create_supabase_sql(agents, drawn) ==
    <<[table |-> "archon_projects", id |-> 0]>>
    \o [k \in 1..agents |->
          [table |-> "archon_agents_v3", id |-> generate_agent_records(agents, drawn)[k]]]

\* config = load_project_agents(): project_agents.yaml may be missing
RegisterLoad ==
    /\ At2("register", "load")
    /\ \E agents \in 0..MaxAgents :
          script' = [script EXCEPT !.agents = agents, !.pc = "records"]
    /\ UNCHANGED <<Icons, host, project, store, archon>>

RegisterLoadRaised ==
    /\ At2("register", "load")
    /\ script' = [script EXCEPT !.pc = "raised"]
    /\ UNCHANGED <<Icons, host, project, store, archon>>

\* records = generate_agent_records()
RegisterRecords ==
    /\ At2("register", "records")
    /\ script' = [script EXCEPT !.records = generate_agent_records(script.agents, host.uuids),
                                !.pc = "sql"]
    /\ host' = [host EXCEPT !.uuids = @ + script.agents]
    /\ UNCHANGED <<Icons, project, store, archon>>

\* sql = create_supabase_sql()
RegisterSql ==
    /\ At2("register", "sql")
    /\ script' = [script EXCEPT !.sql = create_supabase_sql(script.agents, host.uuids),
                                !.pc = "write_sql"]
    /\ host' = [host EXCEPT !.uuids = @ + script.agents]
    /\ UNCHANGED <<Icons, project, store, archon>>

\* the two files are written, the SQL file first; either open may raise
RegisterWrite ==
    /\ script.name = "register" /\ script.pc \in {"write_sql", "write_json"}
    /\ \E ok \in BOOLEAN :
          IF ~ok
          THEN /\ script' = [script EXCEPT !.pc = "raised"]
               /\ UNCHANGED archon
          ELSE IF script.pc = "write_sql"
          THEN /\ archon' = [archon EXCEPT !.sql = script.sql, !.written = @ \cup {"sql"}]
               /\ script' = [script EXCEPT !.pc = "write_json"]
          ELSE /\ archon' = [archon EXCEPT !.json = script.records, !.written = @ \cup {"json"}]
               /\ script' = [script EXCEPT !.pc = "done"]
    /\ UNCHANGED <<Icons, host, project, store>>

\* one iteration of `for test_name, test_func in tests`
RunCheck ==
    /\ At2("test", "checks")
    /\ Len(script.results) < Len(tests)
    /\ script' = [script EXCEPT !.results =
                     Append(@, RunTest(Len(script.results) + 1, project, script.status))]
    /\ UNCHANGED <<Icons, host, project, store, archon>>

\* the loop is exhausted: the summary, and return passed == total
TestSummary ==
    /\ At2("test", "checks")
    /\ Len(script.results) >= Len(tests)
    /\ script' = [script EXCEPT !.ret = Overall(script.results), !.pc = "done"]
    /\ UNCHANGED <<Icons, host, project, store, archon>>

\* the interpreter exits, main() having returned or an exception having left it
ScriptExit ==
    /\ script.pc \in {"done", "raised"}
    /\ host' = [host EXCEPT !.ran = IF script.pc = "done" THEN Append(@, script.name) ELSE @]
    /\ script' = NoScript
    /\ UNCHANGED <<Icons, project, store, archon>>

---------------------------------------------------------------------------
(* Composer activations                                                    *)

Kinds == {"fiber", "capture", "assignments", "sync"}

NoCall == [kind |-> "none", size |-> 0, step |-> "none", img |-> 0, n |-> 0, row |-> 0]
NewCall(kind, size, n) ==
    [kind |-> kind, size |-> size, step |-> "new", img |-> 0, n |-> n, row |-> 0]

\* the first drawing step of each composer
FirstStep(kind) ==
    CASE kind = "fiber" -> "glow"
      [] kind = "capture" -> "body"
      [] kind = "assignments" -> "document"
      [] kind = "sync" -> "outer_arc"

\* Image.new('RGBA', (size, size), ...) raises ValueError for a negative width
\* or height and gives an empty image for size 0
ImageNewOk(size) == size >= 0

\* an Image whose sides are rounded down to an even number of pixels
NewImageEven(size, n) ==
    [size |-> 2 * (size \div 2), ops |-> <<>>, owner |-> n, drawers |-> {}, saves |-> 0]

NewImage(size, n) == [size |-> size, ops |-> <<>>, owner |-> n, drawers |-> {}, saves |-> 0]

\* the id of the Image a call of Image.new creates
NewId(cs) == Len(cs) + 1

\* every activation drawing on the first Image, as with one module-level canvas
DrawTargetFirst(c) == 1

\* the Image the ImageDraw of an activation draws on
DrawTarget(c) == c.img

\* draw.<shape>(...) for every op of ops, in order, by the activation in progress
Draw(ops) ==
    canvases' = [canvases EXCEPT ![DrawTarget(call)] =
                    [@ EXCEPT !.ops = @ \o ops, !.drawers = @ \cup {call.n}]]

Goto(step) == call' = [call EXCEPT !.step = step]

NoExit == 0 - 1

Pipe == <<pc, idx, dirExists, files, writes, stdout, exitCode, pillow, project, script, host, store, archon>>

At(kind, step) == call.kind = kind /\ call.step = step

\* img = Image.new(...); draw = ImageDraw.Draw(img)
NewCanvas ==
    /\ call.step = "new"
    /\ ImageNewOk(call.size)
    /\ canvases' = Append(canvases, NewImage(call.size, call.n))
    /\ call' = [call EXCEPT !.step = FirstStep(call.kind), !.img = NewId(canvases)]
    /\ UNCHANGED <<Pipe, calls>>

\* Image.new raises: ValueError for a negative size, MemoryError when the
\* buffer of a non-empty image cannot be allocated
NewCanvasRaises ==
    /\ call.step = "new"
    /\ \/ ~ImageNewOk(call.size)
       \/ call.size > 0
    /\ Goto("raised")
    /\ UNCHANGED <<Pipe, calls, canvases>>

FiberGlow ==
    /\ At("fiber", "glow")
    /\ Draw(GlowOps(call.size))
    /\ Goto("background")
    /\ UNCHANGED <<Pipe, calls>>

FiberBackground ==
    /\ At("fiber", "background")
    /\ Draw(BackgroundOps(call.size))
    /\ Goto("inner")
    /\ UNCHANGED <<Pipe, calls>>

FiberInner ==
    /\ At("fiber", "inner")
    /\ Draw(InnerOps(call.size))
    /\ Goto("strands")
    /\ UNCHANGED <<Pipe, calls>>

FiberStrands ==
    /\ At("fiber", "strands")
    /\ Draw(StrandsOps(call.size))
    /\ Goto("node")
    /\ UNCHANGED <<Pipe, calls>>

FiberNode ==
    /\ At("fiber", "node")
    /\ Draw(NodeOps(call.size))
    /\ Goto("dots")
    /\ UNCHANGED <<Pipe, calls>>

FiberDots ==
    /\ At("fiber", "dots")
    /\ Draw(DotOps(call.size))
    /\ Goto("label")
    /\ UNCHANGED <<Pipe, calls>>

\* if size >= 128 is false: nothing more is drawn
FiberNoLabel ==
    /\ At("fiber", "label")
    /\ call.size < LabelMinSize
    /\ Goto("return")
    /\ UNCHANGED <<Pipe, calls, canvases>>

\* the try block runs to its end: the shadow, then the label
FiberLabel ==
    /\ At("fiber", "label")
    /\ call.size >= LabelMinSize
    /\ pillow.label = "ok"
    /\ Draw(ShadowOps(call.size, pillow.metrics) \o LabelOps(call.size, pillow.metrics))
    /\ Goto("return")
    /\ UNCHANGED <<Pipe, calls>>

\* the try block raises (load_default, textbbox or one of the two draw.text
\* calls), before or after the shadow was drawn: the except branch draws the cross
FiberLabelFallback ==
    /\ At("fiber", "label")
    /\ call.size >= LabelMinSize
    /\ pillow.label # "ok"
    /\ Draw((IF pillow.label = "late" THEN ShadowOps(call.size, pillow.metrics) ELSE <<>>)
            \o CrossOps(call.size))
    /\ Goto("return")
    /\ UNCHANGED <<Pipe, calls>>

CaptureBody ==
    /\ At("capture", "body")
    /\ Draw(BodyOps(call.size))
    /\ Goto("lens")
    /\ UNCHANGED <<Pipe, calls>>

CaptureLens ==
    /\ At("capture", "lens")
    /\ Draw(LensOps(call.size))
    /\ Goto("inner_lens")
    /\ UNCHANGED <<Pipe, calls>>

CaptureInnerLens ==
    /\ At("capture", "inner_lens")
    /\ Draw(InnerLensOps(call.size))
    /\ Goto("viewfinder")
    /\ UNCHANGED <<Pipe, calls>>

CaptureViewfinder ==
    /\ At("capture", "viewfinder")
    /\ Draw(ViewfinderOps(call.size))
    /\ Goto("return")
    /\ UNCHANGED <<Pipe, calls>>

AssignmentsDocument ==
    /\ At("assignments", "document")
    /\ Draw(DocumentOps(call.size))
    /\ call' = [call EXCEPT !.step = "rows", !.row = 0]
    /\ UNCHANGED <<Pipe, calls>>

\* one iteration of `for i in range(4)`
AssignmentsRow ==
    /\ At("assignments", "rows")
    /\ call.row < Rows
    /\ Draw(RowOps(call.size, call.row))
    /\ call' = [call EXCEPT !.row = @ + 1]
    /\ UNCHANGED <<Pipe, calls>>

AssignmentsRowsDone ==
    /\ At("assignments", "rows")
    /\ call.row >= Rows
    /\ Goto("return")
    /\ UNCHANGED <<Pipe, calls, canvases>>

SyncOuterArc ==
    /\ At("sync", "outer_arc")
    /\ Draw(OuterArcOps(call.size))
    /\ Goto("outer_head")
    /\ UNCHANGED <<Pipe, calls>>

SyncOuterHead ==
    /\ At("sync", "outer_head")
    /\ Draw(OuterHeadOps(call.size))
    /\ Goto("inner_arc")
    /\ UNCHANGED <<Pipe, calls>>

SyncInnerArc ==
    /\ At("sync", "inner_arc")
    /\ Draw(InnerArcOps(call.size))
    /\ Goto("inner_head")
    /\ UNCHANGED <<Pipe, calls>>

SyncInnerHead ==
    /\ At("sync", "inner_head")
    /\ Draw(InnerHeadOps(call.size))
    /\ Goto("return")
    /\ UNCHANGED <<Pipe, calls>>

\* return img
Return ==
    /\ call.step = "return"
    /\ Goto("returned")
    /\ UNCHANGED <<Pipe, calls, canvases>>

Compose ==
    \/ NewCanvas \/ NewCanvasRaises
    \/ FiberGlow \/ FiberBackground \/ FiberInner \/ FiberStrands \/ FiberNode
    \/ FiberDots \/ FiberNoLabel \/ FiberLabel \/ FiberLabelFallback
    \/ CaptureBody \/ CaptureLens \/ CaptureInnerLens \/ CaptureViewfinder
    \/ AssignmentsDocument \/ AssignmentsRow \/ AssignmentsRowsDone
    \/ SyncOuterArc \/ SyncOuterHead \/ SyncInnerArc \/ SyncInnerHead
    \/ Return

\* A composer called on its own, with any size of SizeDomain
InitCompose ==
    /\ pc = "idle"
    /\ idx = 0
    /\ \E kind \in Kinds, size \in SizeDomain :
          /\ call = NewCall(kind, size, 1)
          /\ calls = <<[kind |-> kind, size |-> size]>>
    /\ canvases = <<>>
    /\ dirExists = TRUE
    /\ files = {}
    /\ writes = <<>>
    /\ stdout = <<>>
    /\ exitCode = NoExit
    /\ pillow \in Pillows
    /\ project = [f \in Files |-> Absent]
    /\ script = NoScript
    /\ host = [path |-> <<>>, ran |-> <<>>, runs |-> 0, uuids |-> 0]
    /\ store = EmptyStore
    /\ archon = NoRecords

SpecCompose == InitCompose /\ [][Compose]_vars

---------------------------------------------------------------------------
(* generate_all_icons                                                      *)

\* the size list with its first two entries exchanged
sizes_swapped == <<96, 72, 128, 144, 152, 192, 384, 512>>

sizes == <<72, 96, 128, 144, 152, 192, 384, 512>>
CaptureSize == 96
AssignmentsSize == 96
SyncSize == 96

\* f"icon-{size}.png": the size interpolated once only
IconFileWidthOnly(size) == [stem |-> "icon", w |-> size, h |-> 0, ext |-> "png"]

\* f"icon-{size}x{size}.png": the stem and the two numbers interpolated
IconFile(size) == [stem |-> "icon", w |-> size, h |-> size, ext |-> "png"]
\* "shortcut-<name>.png"
ShortcutFile(name) == [stem |-> name, w |-> 0, h |-> 0, ext |-> "png"]

\* files a previous run may have left in icons_dir
Stale == {IconFile(72), ShortcutFile("favicon")}

Say(line, arg) == stdout' = Append(stdout, <<line, arg>>)

\* the composer called by the statement at pc has returned its image
Returned(p) == pc = p /\ call.step = "returned"

\* the exit status were the exception swallowed at the top level
ExitStatusZero(p) == 0

\* the exit status of the interpreter: 0 when the script runs to its end,
\* 1 when an exception leaves generate_all_icons uncaught
ExitStatus(p) == IF p = "returned" THEN 0 ELSE 1

\* a save whose error is caught around the whole export: control goes to the
\* statements after the last save
SaveIgnoringErrors(name, next) ==
    \E ok \in (IF dirExists THEN BOOLEAN ELSE {FALSE}) :
        IF ok
        THEN /\ files' = files \cup {name}
             /\ writes' = Append(writes, [name |-> name, img |-> call.img])
             /\ canvases' = [canvases EXCEPT ![call.img].saves = @ + 1]
             /\ pc' = next
        ELSE /\ pc' = "finish"
             /\ UNCHANGED <<files, writes, canvases>>

\* icon.save(os.path.join(icons_dir, name), "PNG", optimize=True) of the image
\* the activation returned: it raises when icons_dir is missing, and may raise
\* when the file cannot be written; otherwise the file holds the image and
\* control goes to the statement at `next`
Save(name, next) ==
    \E ok \in (IF dirExists THEN BOOLEAN ELSE {FALSE}) :
        IF ok
        THEN /\ files' = files \cup {name}
             /\ writes' = Append(writes, [name |-> name, img |-> call.img])
             /\ canvases' = [canvases EXCEPT ![call.img].saves = @ + 1]
             /\ pc' = next
        ELSE /\ pc' = "raised"
             /\ UNCHANGED <<files, writes, canvases>>

\* name = composer(size)
CallComposer(kind, size, next) ==
    /\ calls' = Append(calls, [kind |-> kind, size |-> size])
    /\ call' = NewCall(kind, size, Len(calls) + 1)
    /\ pc' = next

Init ==
    /\ pc = "start"
    /\ idx = 1
    /\ call = NoCall
    /\ calls = <<>>
    /\ canvases = <<>>
    /\ dirExists \in BOOLEAN
    /\ files \in (IF dirExists THEN SUBSET Stale ELSE {{}})
    /\ writes = <<>>
    /\ stdout = <<>>
    /\ exitCode = NoExit
    /\ pillow \in Pillows
    /\ project = [f \in Files |-> Absent]
    /\ script = NoScript
    /\ host = [path |-> <<>>, ran |-> <<>>, runs |-> 0, uuids |-> 0]
    /\ store = EmptyStore
    /\ archon = NoRecords

\* print("Generating FibreField PWA icons...")
Begin ==
    /\ pc = "start"
    /\ Say("Generating FibreField PWA icons...", 0)
    /\ pc' = "main"
    /\ UNCHANGED <<idx, call, calls, canvases, dirExists, files, writes, exitCode, pillow, project, script, host, store, archon>>

\* for size in sizes: print(...); icon = create_fiber_icon(size)
CallFiber ==
    /\ pc = "main"
    /\ idx <= Len(sizes)
    /\ Say("Creating main icon", sizes[idx])
    /\ CallComposer("fiber", sizes[idx], "main_call")
    /\ UNCHANGED <<idx, canvases, dirExists, files, writes, exitCode, pillow, project, script, host, store, archon>>

\* icon.save(...), then the next iteration
SaveMain ==
    /\ Returned("main_call")
    /\ Save(IconFile(sizes[idx]), "main")
    /\ idx' = idx + 1
    /\ call' = NoCall
    /\ UNCHANGED <<calls, dirExists, stdout, exitCode, pillow, project, script, host, store, archon>>

\* the loop is exhausted: print("Creating shortcut icons...")
LoopEnd ==
    /\ pc = "main"
    /\ idx > Len(sizes)
    /\ Say("Creating shortcut icons...", 0)
    /\ pc' = "capture"
    /\ UNCHANGED <<idx, call, calls, canvases, dirExists, files, writes, exitCode, pillow, project, script, host, store, archon>>

CallCapture ==
    /\ pc = "capture"
    /\ CallComposer("capture", CaptureSize, "capture_call")
    /\ UNCHANGED <<idx, canvases, dirExists, files, writes, stdout, exitCode, pillow, project, script, host, store, archon>>

SaveCapture ==
    /\ Returned("capture_call")
    /\ Save(ShortcutFile("shortcut-capture"), "assignments")
    /\ call' = NoCall
    /\ UNCHANGED <<idx, calls, dirExists, stdout, exitCode, pillow, project, script, host, store, archon>>

CallAssignments ==
    /\ pc = "assignments"
    /\ CallComposer("assignments", AssignmentsSize, "assignments_call")
    /\ UNCHANGED <<idx, canvases, dirExists, files, writes, stdout, exitCode, pillow, project, script, host, store, archon>>

SaveAssignments ==
    /\ Returned("assignments_call")
    /\ Save(ShortcutFile("shortcut-assignments"), "sync")
    /\ call' = NoCall
    /\ UNCHANGED <<idx, calls, dirExists, stdout, exitCode, pillow, project, script, host, store, archon>>

CallSync ==
    /\ pc = "sync"
    /\ CallComposer("sync", SyncSize, "sync_call")
    /\ UNCHANGED <<idx, canvases, dirExists, files, writes, stdout, exitCode, pillow, project, script, host, store, archon>>

SaveSync ==
    /\ Returned("sync_call")
    /\ Save(ShortcutFile("shortcut-sync"), "finish")
    /\ call' = NoCall
    /\ UNCHANGED <<idx, calls, dirExists, stdout, exitCode, pillow, project, script, host, store, archon>>

\* print("All icons generated successfully!"); print(f"Icons saved to: {icons_dir}")
Finish ==
    /\ pc = "finish"
    /\ stdout' = stdout \o <<<<"All icons generated successfully!", 0>>,
                             <<"Icons saved to: icons_dir", 0>> >>
    /\ pc' = "returned"
    /\ UNCHANGED <<idx, call, calls, canvases, dirExists, files, writes, exitCode, pillow, project, script, host, store, archon>>

\* an exception raised in a composer: generate_all_icons has no handler, so it
\* leaves the function at the call
ComposerRaised ==
    /\ pc \in {"main_call", "capture_call", "assignments_call", "sync_call"}
    /\ call.step = "raised"
    /\ pc' = "raised"
    /\ call' = NoCall
    /\ UNCHANGED <<idx, calls, canvases, dirExists, files, writes, stdout, exitCode, pillow, project, script, host, store, archon>>

\* if __name__ == "__main__": generate_all_icons(), then the interpreter exits
Exit ==
    /\ pc \in {"returned", "raised"}
    /\ exitCode' = ExitStatus(pc)
    /\ pc' = "exited"
    /\ UNCHANGED <<idx, call, calls, canvases, dirExists, files, writes, stdout, pillow, project, script, host, store, archon>>

Next ==
    \/ Begin \/ CallFiber \/ SaveMain \/ LoopEnd
    \/ CallCapture \/ SaveCapture \/ CallAssignments \/ SaveAssignments
    \/ CallSync \/ SaveSync \/ Finish \/ ComposerRaised \/ Exit
    \/ Compose

Spec == Init /\ [][Next]_vars

---------------------------------------------------------------------------
(* The Archon scripts run one after another in the project directory       *)

\* what the project directory may hold before the first script runs
InitArchon ==
    /\ pc = "idle" /\ idx = 0 /\ call = NoCall /\ calls = <<>> /\ canvases = <<>>
    /\ dirExists = TRUE /\ files = {} /\ writes = <<>> /\ stdout = <<>>
    /\ exitCode = NoExit
    /\ pillow = [metrics |-> <<0, 0>>, label |-> "early"]
    /\ \E claude \in {Absent, TextFile(<<"##", "ARCHON", "INTEGRATION", "fibrefield-project">>)} :
          \E old \in [{"mcp_config.json", "initial_tasks.json", "knowledge_index.json"}
                        -> {Absent, TextFile(<<"{">>)}] :
              project = [f \in Files |->
                            IF f = "CLAUDE.md" THEN claude
                            ELSE IF f \in DOMAIN old THEN old[f]
                            ELSE Absent]
    /\ script = NoScript
    /\ \E path \in ProjectPaths : host = [path |-> path, ran |-> <<>>, runs |-> 0, uuids |-> 0]
    /\ store = EmptyStore
    /\ archon = NoRecords

NextArchon ==
    \/ Launch
    \/ SetupMcpConfig \/ SetupInitialTasks \/ SetupKnowledgeIndex \/ SetupReport
    \/ ActivateClaudeMd \/ ActivateRam \/ ActivateRamSource \/ ActivateRamItem
    \/ ActivateRamDone \/ ActivateMcpConfig
    \/ TasksSave
    \/ RegisterLoad \/ RegisterLoadRaised \/ RegisterRecords \/ RegisterSql \/ RegisterWrite
    \/ RunCheck \/ TestSummary
    \/ ScriptExit

SpecArchon == InitArchon /\ [][NextArchon]_vars

---------------------------------------------------------------------------
(* Properties of the export pipeline, checked under Spec                   *)

\* the 11 file names of one run, in the order of the script
ExpectedFiles ==
    <<[stem |-> "icon", w |-> 72, h |-> 72, ext |-> "png"],
      [stem |-> "icon", w |-> 96, h |-> 96, ext |-> "png"],
      [stem |-> "icon", w |-> 128, h |-> 128, ext |-> "png"],
      [stem |-> "icon", w |-> 144, h |-> 144, ext |-> "png"],
      [stem |-> "icon", w |-> 152, h |-> 152, ext |-> "png"],
      [stem |-> "icon", w |-> 192, h |-> 192, ext |-> "png"],
      [stem |-> "icon", w |-> 384, h |-> 384, ext |-> "png"],
      [stem |-> "icon", w |-> 512, h |-> 512, ext |-> "png"],
      [stem |-> "shortcut-capture", w |-> 0, h |-> 0, ext |-> "png"],
      [stem |-> "shortcut-assignments", w |-> 0, h |-> 0, ext |-> "png"],
      [stem |-> "shortcut-sync", w |-> 0, h |-> 0, ext |-> "png"]>>

\* the composer and the size of each of the 11 icons
ExpectedCalls ==
    <<[kind |-> "fiber", size |-> 72], [kind |-> "fiber", size |-> 96],
      [kind |-> "fiber", size |-> 128], [kind |-> "fiber", size |-> 144],
      [kind |-> "fiber", size |-> 152], [kind |-> "fiber", size |-> 192],
      [kind |-> "fiber", size |-> 384], [kind |-> "fiber", size |-> 512],
      [kind |-> "capture", size |-> 96], [kind |-> "assignments", size |-> 96],
      [kind |-> "sync", size |-> 96]>>

Range1(f) == {f[k] : k \in 1..Len(f)}

\* C1: a failure of one icon does not prevent the remaining icons from being
\* attempted: when the process has ended in an existing output directory,
\* every one of the 11 icons was rendered and at least the 10 others were saved
C1_RemainingIconsAttempted ==
    (pc = "exited" /\ dirExists) =>
        /\ Len(calls) = 11
        /\ Len(writes) >= 10

\* C2: no error propagates out of generate_all_icons: the function is never
\* left by an exception
C2_NoErrorEscapes == pc # "raised"

\* C3: when every write has succeeded and the function has returned, exactly
\* the 11 expected files were written, each once, from an image of the
\* declared size (the three shortcuts at 96), and nothing else was added to
\* the directory
C3_ExactlyElevenFiles ==
    pc = "returned" =>
        /\ [k \in 1..Len(writes) |-> writes[k].name] = ExpectedFiles
        /\ \A k \in 1..Len(writes) :
              /\ canvases[writes[k].img].size = ExpectedCalls[k].size
              /\ calls[canvases[writes[k].img].owner] = ExpectedCalls[k]
        /\ Range1(ExpectedFiles) \subseteq files
        /\ files \ Stale \subseteq Range1(ExpectedFiles)

C3_Witness == pc = "returned" /\ Len(writes) = 11 /\ Cardinality(files) = 12

\* C4: once the process has exited, its exit code is 0 exactly when all 11
\* files were written
C4_ExitCodeReflectsSuccess ==
    pc = "exited" =>
        /\ exitCode # NoExit
        /\ (exitCode = 0) <=> (Len(writes) = 11 /\ Range1(ExpectedFiles) \subseteq files)

\* a run that wrote some files, then failed, and exited non-zero
C4_Witness == pc = "exited" /\ exitCode # 0 /\ Len(writes) = 3

\* C6: icons are processed one at a time in the fixed order: the k-th composer
\* call and the k-th save are those of the k-th icon, the k-th save writes the
\* k-th image, a render begins only after all earlier images were saved, and
\* at most one image is unsaved at any time
C6_SequentialFixedOrder ==
    /\ Len(calls) <= 11
    /\ \A k \in 1..Len(calls) : calls[k] = ExpectedCalls[k]
    /\ \A k \in 1..Len(writes) : writes[k].name = ExpectedFiles[k] /\ writes[k].img = k
    /\ Len(writes) <= Len(calls) /\ Len(calls) <= Len(writes) + 1
    /\ \A i \in 1..Len(canvases) : canvases[i].owner = i
    /\ Cardinality({i \in 1..Len(canvases) : canvases[i].saves = 0}) <= 1
    /\ (call # NoCall) => (call.n = Len(calls) /\ Len(writes) = call.n - 1)

\* the fourth icon is being drawn after the first three were saved
C6_Witness ==
    /\ Len(writes) = 3
    /\ call.kind = "fiber" /\ call.size = 144 /\ call.step = "strands"

\* every canvas is drawn on by its creator only and saved at most once (exactly
\* once when the run completes); no two calls share a canvas, no two saves an image
C7_CanvasState ==
    /\ \A i \in 1..Len(canvases) :
          /\ canvases[i].drawers \subseteq {canvases[i].owner}
          /\ canvases[i].saves <= 1
          /\ \A j \in 1..Len(canvases) : canvases[j].owner = canvases[i].owner => j = i
    /\ \A k, l \in 1..Len(writes) : writes[k].img = writes[l].img => k = l
    /\ pc = "returned" => \A i \in 1..Len(canvases) : canvases[i].saves = 1
\* a step creates canvases empty and unsaved and leaves a saved canvas as it is
C7_CanvasStep ==
    /\ Len(canvases') >= Len(canvases)
    /\ \A i \in 1..Len(canvases') :
          IF i > Len(canvases)
          THEN canvases'[i].ops = <<>> /\ canvases'[i].saves = 0
          ELSE canvases[i].saves > 0 => canvases'[i].ops = canvases[i].ops
\* C7: a canvas is new and empty when created, is drawn on only by the composer
\* call that created it, is saved at most once (exactly once when the run
\* completes), and is not drawn on after its save
C7_CanvasOwnedAndSavedOnce == [](C7_CanvasState) /\ [][C7_CanvasStep]_vars

\* an image was saved and a later one has been drawn on
C7_Witness ==
    \E i \in 1..Len(canvases) :
        /\ canvases[i].saves = 1
        /\ Len(canvases) > i
        /\ canvases[Len(canvases)].ops # <<>>

---------------------------------------------------------------------------
(* Properties of the composers, checked under SpecCompose                  *)

\* the ops on the canvas of the activation in progress
CallOps == IF call.img = 0 THEN <<>> ELSE canvases[call.img].ops

\* the composer has returned its canvas
HasReturned == call.step = "returned"

\* C5: for every size <= 0 a composer fails at canvas creation: it creates no
\* canvas, draws nothing and does not return
C5_NonPositiveSizeFailsFast ==
    call.size <= 0 => (call.step \in {"new", "raised"} /\ canvases = <<>>)

\* C8 as stated: for every composer and every size >= 32 the centre pixel of
\* the returned canvas is fully opaque
C8_CenterOpaqueAll ==
    (HasReturned /\ call.size >= 32) =>
        Alphas(CallOps, call.size \div 2, call.size \div 2) = {255}

\* C8 as amended: for create_fiber_icon, create_capture_icon and
\* create_assignments_icon and every size >= 32 the centre pixel of the
\* returned canvas is fully opaque
C8_CenterOpaque ==
    (HasReturned /\ call.size >= 32 /\ call.kind # "sync") =>
        Alphas(CallOps, call.size \div 2, call.size \div 2) = {255}

\* a primary icon with its label drawn over the node
C8_Witness ==
    /\ HasReturned /\ call.kind = "fiber" /\ call.size >= 128 /\ pillow.label = "ok"
    /\ Alphas(CallOps, call.size \div 2, call.size \div 2) = {255}

\* C9: drawing a shape whose colour has alpha 0 changes no pixel: every pixel
\* holds the same value before and after every draw whose fill has alpha 0
C9_TransparentDrawIsNoOp ==
    \A n \in 1..Len(CallOps) :
        (CallOps[n].fill # NoColor /\ CallOps[n].fill[4] = 0) =>
            \A px, py \in 0..(call.size - 1) :
                Colors(CallOps, n, px, py) = Colors(CallOps, n - 1, px, py)

\* the stroke widths passed for one part of an icon
Widths(ops, part) == {ops[n].width : n \in {m \in 1..Len(ops) : ops[m].part = part}}

\* C10: every stroke or outline width a composer passes is derived from size
\* and scales with it: for the sizes from 96 on, where no lower limit of a
\* width applies, the width passed at twice the size is larger
C10_WidthsScaleWithSize ==
    (HasReturned /\ call.size >= 96) =>
        \A n \in 1..Len(CallOps) :
            CallOps[n].width > 0 =>
                \A w \in Widths(ComposerOps(call.kind, 2 * call.size, pillow), CallOps[n].part) :
                    w > CallOps[n].width

\* the step actions of a composer issue the ops of the composer
StepsMatchComposer ==
    HasReturned => CallOps = ComposerOps(call.kind, call.size, pillow)

---------------------------------------------------------------------------
(* Properties of create_fiber_icon, checked under SpecCompose              *)

\* the box of an op runs from its smaller to its larger corner (ImageDraw
\* rejects an ellipse or a rectangle whose x1 < x0 or y1 < y0)
WellFormed(op) ==
    op.shape \in {"ellipse", "rectangle", "rounded_rectangle"} =>
        (op.box[1] <= op.box[3] /\ op.box[2] <= op.box[4])

\* C11: for every size > 0 create_fiber_icon draws on, and returns, a canvas of
\* exactly size x size pixels; no draw it issues is rejected, down to the sizes
\* whose radii truncate to 0, so that the only step that can fail is Image.new
C11_FiberCanvasIsSizeBySize ==
    (call.kind = "fiber" /\ call.size > 0) =>
        /\ call.step = "raised" => canvases = <<>>
        /\ call.step \notin {"new", "raised"} =>
              /\ Len(canvases) = 1 /\ call.img = 1
              /\ canvases[call.img].size = call.size
              /\ \A n \in 1..Len(CallOps) : WellFormed(CallOps[n])

\* a 1 x 1 primary icon, all of whose radii are 0, has been returned
C11_Witness ==
    /\ HasReturned /\ call.kind = "fiber" /\ call.size = 1
    /\ Fiber(call.size).radius = 0 /\ Fiber(call.size).inner_radius = 0
    /\ canvases[call.img].size = 1
    /\ Len(CallOps) = 125

---------------------------------------------------------------------------
(* Properties of create_assignments_icon, checked under SpecCompose        *)

\* the row an op belongs to: the number of checkboxes drawn up to it, less one
RowOf(ops, n) == Cardinality({m \in 1..n : ops[m].part = "checkbox"}) - 1

\* the op may write a pixel of the canvas that lies in the box b
Touches(op, b, size) ==
    \E px \in Max(0, b[1] \div U)..Min(size - 1, b[3] \div U) :
        \E py \in Max(0, b[2] \div U)..Min(size - 1, b[4] \div U) :
            MayCover(op, px, py)

\* four rows of one checkbox and one text line each; rows 0 and 1 filled, with
\* a checkmark of two joined segments; rows 2 and 3 empty, and neither a
\* checkmark nor an op of another row writes into their checkbox
RowsAsDrawn(ops, size) ==
    LET boxes == {n \in 1..Len(ops) : ops[n].part = "checkbox"}
    IN  /\ Cardinality(boxes) = Rows
        /\ Cardinality({n \in 1..Len(ops) : ops[n].part = "text_line"}) = Rows
        /\ \A r \in 0..(Rows - 1) :
              Cardinality({n \in 1..Len(ops) : ops[n].part = "text_line" /\ RowOf(ops, n) = r}) = 1
        /\ \A n \in boxes :
              IF RowOf(ops, n) < CheckedRows
              THEN /\ ops[n].fill = Opaque(light_blue)
                   /\ ops[n + 1].part = "checkmark" /\ ops[n + 2].part = "checkmark"
                   /\ ops[n + 3].part = "text_line"
                   /\ <<ops[n + 1].box[3], ops[n + 1].box[4]>>
                        = <<ops[n + 2].box[1], ops[n + 2].box[2]>>
              ELSE /\ ops[n].fill = Opaque(white)
                   /\ ops[n + 1].part = "text_line"
                   /\ \A m \in 2..Len(ops) :
                         (ops[m].part = "checkmark" \/ RowOf(ops, m) # RowOf(ops, n)) =>
                             ~Touches(ops[m], ops[n].box, size)

RowsApartFrom == 30

---------------------------------------------------------------------------
(* The drawing order of create_fiber_icon, checked under SpecCompose       *)

\* the place of a part in the back-to-front order of the primary icon
FiberRank(part) ==
    CASE part = "glow" -> 1
      [] part = "background" -> 2
      [] part = "inner" -> 3
      [] part = "strand" -> 4
      [] part = "node" -> 5
      [] part = "dot" -> 6
      [] part \in {"shadow", "label", "cross"} -> 7
      [] OTHER -> 0

\* the place of the step an activation of create_fiber_icon is about to take
StepRank(step) ==
    CASE step = "glow" -> 1
      [] step = "background" -> 2
      [] step = "inner" -> 3
      [] step = "strands" -> 4
      [] step = "node" -> 5
      [] step = "dots" -> 6
      [] step = "label" -> 7
      [] OTHER -> 8

\* the number of draws a finished step of the primary icon has issued
DrawsOfStep(size, rank) ==
    CASE rank = 1 -> Max(Fiber(size).radius, 0)
      [] rank = 4 -> Len(angle_offsets) * (Samples - 1)
      [] rank = 6 -> Len(dot_angles)
      [] OTHER -> 1

\* C16: create_fiber_icon issues its draws in the order glow circles,
\* background disk, inner disk, six strands, central node, eight dots, label:
\* all the draws of a step come before any draw of the next, and at every
\* pixel a later draw surely covers its ink replaces what earlier steps left
C16_FiberDrawOrder ==
    (call.kind = "fiber" /\ call.img # 0) =>
        /\ \A n \in 1..(Len(CallOps) - 1) :
              FiberRank(CallOps[n].part) <= FiberRank(CallOps[n + 1].part)
        /\ \A n \in 1..Len(CallOps) :
              /\ FiberRank(CallOps[n].part) >= 1
              /\ FiberRank(CallOps[n].part) < StepRank(call.step)
        /\ \A rank \in 1..6 :
              rank < StepRank(call.step) =>
                  Cardinality({n \in 1..Len(CallOps) : FiberRank(CallOps[n].part) = rank})
                      = DrawsOfStep(call.size, rank)
        /\ HasReturned =>
              \A n \in 1..Len(CallOps) :
                  MustCover(CallOps[n], call.size \div 2, call.size \div 2) =>
                      Colors(CallOps, n, call.size \div 2, call.size \div 2)
                          \subseteq OpInks(CallOps[n])

\* a labelled primary icon: its first draw is a glow circle, its last the label,
\* and the centre, covered by every disk in turn, holds the node's ink or the
\* label's
C16_Witness ==
    /\ HasReturned /\ call.kind = "fiber" /\ call.size = LabelMinSize
    /\ CallOps[1].part = "glow" /\ CallOps[Len(CallOps)].part = "label"
    /\ MustCover(CallOps[Fiber(call.size).radius + 1], call.size \div 2, call.size \div 2)
    /\ MustCover(CallOps[Fiber(call.size).radius + 1 + 1 + 114 + 1], call.size \div 2, call.size \div 2)

\* the number of draws of a part on the canvas of the activation in progress
Drawn(part) == Cardinality({n \in 1..Len(CallOps) : CallOps[n].part = part})

StrandAlphas == [n \in 1..Drawn("strand") |->
                    CallOps[Max(Fiber(call.size).radius, 0) + 2 + n].fill[4]]

\* C18: along each of the six strands the alpha of the segments never
\* increases from the innermost segment to the outermost, the innermost is
\* fully opaque (255) and the outermost fully transparent (0)
C18_StrandAlphaFullRange ==
    (HasReturned /\ call.kind = "fiber") =>
        \A strand \in 0..(Len(angle_offsets) - 1) :
            LET first == strand * (Samples - 1) + 1
                last == (strand + 1) * (Samples - 1)
            IN  /\ \A n \in first..(last - 1) : StrandAlphas[n] >= StrandAlphas[n + 1]
                /\ StrandAlphas[first] = 255
                /\ StrandAlphas[last] = 0

---------------------------------------------------------------------------
(* Properties of create_sync_icon, checked under SpecCompose               *)

\* the indices of the draws of a part on the canvas, in the order drawn
IndicesOf(part) == {n \in 1..Len(CallOps) : CallOps[n].part = part}

\* the turn of a segment about the canvas centre: positive when the segment
\* runs clockwise on the screen (y grows downwards), negative when it runs
\* counter-clockwise
Turn(op, size) ==
    (op.box[1] - center(size) * U) * (op.box[4] - center(size) * U)
    - (op.box[3] - center(size) * U) * (op.box[2] - center(size) * U)

\* the last point of the sweep of an arc: the end of its last segment
SweepEnd(part) ==
    LET last == CHOOSE n \in IndicesOf(part) : \A m \in IndicesOf(part) : m <= n
    IN  <<CallOps[last].box[3], CallOps[last].box[4]>>

\* C19: the outer arc is swept clockwise and the inner arc counter-clockwise,
\* and each arc has one arrow head of three points whose apex is the last
\* point of that arc's sweep (sizes from 20 on, where both arcs have a radius)
C19_OppositeSweepsWithHeads ==
    (HasReturned /\ call.kind = "sync" /\ call.size >= 20) =>
        /\ \A n \in IndicesOf("outer_arc") : Turn(CallOps[n], call.size) > 0
        /\ \A n \in IndicesOf("inner_arc") : Turn(CallOps[n], call.size) < 0
        /\ Cardinality(IndicesOf("outer_head")) = 1
        /\ Cardinality(IndicesOf("inner_head")) = 1
        /\ \A n \in IndicesOf("outer_head") :
              Len(CallOps[n].pts) = 3 /\ CallOps[n].pts[1] = SweepEnd("outer_arc")
        /\ \A n \in IndicesOf("inner_head") :
              Len(CallOps[n].pts) = 3 /\ CallOps[n].pts[1] = SweepEnd("inner_arc")

\* the angles at which the inner arc is sampled, as passed to math.radians
InnerAngles ==
    LET angles == Range(InnerStart, InnerStop, ArcStep)
    IN  [k \in 1..Len(angles) |-> angle_norm(angles[k])]

\* the sample points of the inner arc as they are on the canvas: the start of
\* its first segment and the end of every segment
InnerSamples ==
    LET first == Len(OuterArcOps(call.size)) + Len(OuterHeadOps(call.size)) + 1
        segments == Cardinality(IndicesOf("inner_arc"))
        ops == CallOps
    IN  [k \in 1..(segments + 1) |->
            IF k = 1 THEN <<ops[first].box[1], ops[first].box[2]>>
            ELSE <<ops[first + k - 2].box[3], ops[first + k - 2].box[4]>>]

\* C20: the inner arc, sampled from 225 degrees over 360 degrees in steps of
\* 5, has exactly 72 sample points; every sample angle is normalised into
\* [0, 360) and no two samples share an angle (so that, the radius being at
\* least 1, no two sample points coincide)
C20_InnerArcSamples ==
    (HasReturned /\ call.kind = "sync") =>
        LET angles == InnerAngles
            samples == InnerSamples
        IN  /\ InnerStop - InnerStart = 360
            /\ Len(angles) = 72
            /\ \A k \in 1..Len(angles) : 0 <= angles[k] /\ angles[k] < 360
            /\ Cardinality({angles[k] : k \in 1..Len(angles)}) = Len(angles)
            /\ Len(samples) = Len(angles)
            /\ \A k \in 1..Len(samples) :
                  samples[k] = ArcPoint(call.size, Sync(call.size).inner_radius, angles[k])
            /\ Sync(call.size).inner_radius >= 1 =>
                  Cardinality({samples[k] : k \in 1..Len(samples)}) = Len(samples)

\* a sync icon of 96 pixels whose inner arc runs through 355 degrees into 0
C20_Witness ==
    /\ HasReturned /\ call.kind = "sync" /\ call.size = SyncSize
    /\ Cardinality(IndicesOf("inner_arc")) = 71
    /\ InnerAngles[27] = 355 /\ InnerAngles[28] = 0 /\ InnerAngles[72] = 220
    /\ InnerSamples[28] = <<(center(call.size) + Sync(call.size).inner_radius) * U,
                            center(call.size) * U>>

---------------------------------------------------------------------------
(* Properties of the Archon scripts, checked under SpecArchon              *)

\* C13: run_full_test runs its four checks in order whatever the earlier ones
\* returned, each result being what the check gives on the project directory
\* and the health answer of the run, and returns True exactly when all four
\* returned True
C13_RunsAllFourChecks ==
    script.name = "test" =>
        /\ script.pc # "raised"
        /\ Len(script.results) <= 4
        /\ \A k \in 1..Len(script.results) :
              script.results[k] = RunTest(k, project, script.status)
        /\ script.pc = "done" =>
              /\ Len(script.results) = 4
              /\ script.ret = (\A k \in 1..4 : script.results[k])

\* a run whose first two checks failed and whose last two were still run and
\* passed; it returned False
C13_Witness ==
    /\ script.name = "test" /\ script.pc = "done"
    /\ script.results = <<FALSE, FALSE, TRUE, TRUE>>
    /\ script.ret = FALSE

\* setup_project was the last script to complete, tests aside
SetupLast ==
    \/ script.name = "setup" /\ script.pc = "done"
    \/ /\ script.name \in {"none", "test"}
       /\ \E i \in 1..Len(host.ran) :
             /\ host.ran[i] = "setup"
             /\ \A j \in (i + 1)..Len(host.ran) : host.ran[j] = "test"

\* C14: once setup_project has completed, the file checks of the integration
\* test pass on the project directory: mcp_config.json parses and has "archon"
\* under mcpServers, initial_tasks.json parses and has at least 5 tasks,
\* knowledge_index.json parses as a list of items
C14_SetupPassesFileChecks ==
    SetupLast =>
        /\ McpConfigCheck(project)
        /\ InitialTasksCheck(project)
        /\ json_loads(project["initial_tasks.json"]).len >= 5
        /\ test_project_knowledge(project)
        /\ json_loads(project["knowledge_index.json"]).kind = "list"
        /\ script.name = "test" =>
              \A k \in 1..Len(script.results) : k = 4 => script.results[k]

\* the test, run after setup_project, has passed its knowledge-base check
C14_Witness ==
    /\ host.ran = <<"setup">>
    /\ script.name = "test" /\ script.pc = "done"
    /\ script.results[4]
    /\ McpConfigCheck(project) /\ InitialTasksCheck(project)

\* C15: once create_claude_md has written CLAUDE.md, the CLAUDE.md check of
\* test_project_setup passes: the file contains "ARCHON INTEGRATION" and
\* "fibrefield-project"
C15_ClaudeMdPassesCheck ==
    (script.name = "activate" /\ script.pc \in {"ram", "mcp", "done"}) =>
        ClaudeMdCheck(project)


---------------------------------------------------------------------------
(* The success message of generate_all_icons                               *)

SuccessLine == <<"All icons generated successfully!", 0>>
SuccessPrinted == \E k \in 1..Len(stdout) : stdout[k] = SuccessLine

\* C25: 'All icons generated successfully!' is on the output only when all 11
\* saves have completed (the eleven expected files written in order, the
\* function having returned and the exit status being 0), and it is not on the
\* output of a run in which a composer or a save raised
C25_SuccessOnlyAfterAllSaves ==
    /\ SuccessPrinted =>
          /\ Len(writes) = 11
          /\ [k \in 1..Len(writes) |-> writes[k].name] = ExpectedFiles
          /\ pc \in {"returned", "exited"}
          /\ (pc = "exited" => exitCode = 0)
    /\ (pc = "raised" \/ (pc = "exited" /\ exitCode # 0)) => ~SuccessPrinted

C25_Witness == SuccessPrinted /\ pc = "exited" /\ Len(writes) = 11

---------------------------------------------------------------------------
(* The glow of create_fiber_icon                                           *)

\* the pixels the glow is looked at: the row, the column and the diagonal
\* through the canvas centre
GlowProbes(size) ==
    {<<px, center(size)>> : px \in 0..(size - 1)}
    \cup {<<center(size), py>> : py \in 0..(size - 1)}
    \cup {<<px, px>> : px \in 0..(size - 1)}

\* C26: every glow circle of create_fiber_icon is an ellipse centred on the
\* canvas centre whose radius is at most the radius of the background disk (the
\* largest has the disk's own box), and the opaque disk is drawn after all of
\* them; once the disk is drawn, a pixel the disk cannot cover is covered by no
\* glow circle, and a pixel the disk covers holds the disk's colour only
C26_GlowUnderBackground ==
    (call.kind = "fiber" /\ IndicesOf("background") # {}) =>
        LET ops == CallOps
            bg == CHOOSE n \in IndicesOf("background") : TRUE
            disk == ops[bg]
            c == center(call.size) * U
            glow == IndicesOf("glow")
        IN  /\ IndicesOf("background") = {bg}
            /\ disk.fill = Opaque(primary_blue)
            /\ disk.box[1] + disk.box[3] = 2 * c /\ disk.box[2] + disk.box[4] = 2 * c
            /\ glow = 1..(bg - 1)
            /\ \A n \in glow :
                  /\ ops[n].shape = "ellipse"
                  /\ ops[n].box[1] + ops[n].box[3] = 2 * c
                  /\ ops[n].box[2] + ops[n].box[4] = 2 * c
                  /\ ops[n].box[3] - ops[n].box[1] = ops[n].box[4] - ops[n].box[2]
                  /\ ops[n].box[3] - ops[n].box[1] <= disk.box[3] - disk.box[1]
                  /\ ops[n].box[3] - ops[n].box[1] >= 2 * U
                  /\ n = 1 => ops[n].box = disk.box
            /\ call.step = "inner" =>
                  \A p \in GlowProbes(call.size) :
                      /\ ~MayCover(disk, p[1], p[2]) =>
                            \A n \in glow : ~MayCover(ops[n], p[1], p[2])
                      /\ MustCover(disk, p[1], p[2]) =>
                            Colors(ops, bg, p[1], p[2]) = {disk.fill}

\* the disk of a 96 x 96 icon has just been drawn over 38 glow circles, the
\* centre pixel having been written by each of them
C26_Witness ==
    /\ call.kind = "fiber" /\ call.size = 96 /\ call.step = "inner"
    /\ Cardinality(IndicesOf("glow")) = 38
    /\ \A n \in IndicesOf("glow") : MustCover(CallOps[n], 48, 48)
    /\ Colors(CallOps, 38, 48, 48) # {Opaque(primary_blue)}
    /\ Colors(CallOps, 39, 48, 48) = {Opaque(primary_blue)}

---------------------------------------------------------------------------
(* The dimensions and bounding boxes at the sizes the export uses          *)

\* the box an op may write into: its bounding box, grown by half the stroke
\* width for a line, whose stroke is centred on it
Extent(op) ==
    LET b == BBox(op)
        g == IF op.shape = "line" THEN (op.width * U) \div 2 ELSE 0
    IN  <<b[1] - g, b[2] - g, b[3] + g, b[4] + g>>

\* box b lies within box d
Within(b, d) == d[1] <= b[1] /\ d[2] <= b[2] /\ b[3] <= d[3] /\ b[4] <= d[4]

\* the lengths a composer derives from size, other than positions
Dimensions(kind, size) ==
    CASE kind = "fiber" ->
            {Fiber(size).radius, Fiber(size).inner_radius, Fiber(size).cable_width,
             Fiber(size).node_radius, Fiber(size).point_radius, Fiber(size).point_size}
      [] kind = "capture" ->
            {Capture(size).camera_width, Capture(size).camera_height,
             Capture(size).lens_radius, Capture(size).inner_lens,
             Capture(size).vf_width, Capture(size).vf_height}
      [] kind = "assignments" ->
            {Assignments(size).doc_width, Assignments(size).doc_height,
             Assignments(size).item_height, Assignments(size).item_margin,
             Assignments(size).checkbox_size, Assignments(size).line_width}
      [] kind = "sync" ->
            {Sync(size).radius, Sync(size).inner_radius, Sync(size).arrow_width,
             Sync(size).head_size}

\* the op of a part drawn once
TheOp(part) == CallOps[CHOOSE n \in IndicesOf(part) : TRUE]

\* C27: at the sizes of the export (72 .. 512 for the primary icon, 96 for the
\* shortcut icons) every derived dimension, stroke width and corner radius of
\* a returned icon is at least 1 and every shape drawn lies within the pixels
\* 0 .. size - 1 on both axes; the viewfinder of the capture icon ends above
\* the top of the camera body, and the checkbox, checkmark and text line of
\* each of the four assignment rows lie inside the document rectangle
C27_NothingClipped ==
    (/\ HasReturned
     /\ \/ call.kind = "fiber" /\ call.size \in {sizes[k] : k \in 1..Len(sizes)}
        \/ call.kind = "capture" /\ call.size = CaptureSize
        \/ call.kind = "assignments" /\ call.size = AssignmentsSize
        \/ call.kind = "sync" /\ call.size = SyncSize) =>
        /\ \A d \in Dimensions(call.kind, call.size) : d >= 1
        /\ \A n \in 1..Len(CallOps) :
              /\ (CallOps[n].shape = "line" \/ CallOps[n].outline # NoColor) =>
                    CallOps[n].width >= 1
              /\ CallOps[n].shape = "rounded_rectangle" => CallOps[n].corner >= 1
              /\ CallOps[n].shape \in {"ellipse", "rectangle", "rounded_rectangle"} =>
                    /\ CallOps[n].box[3] - CallOps[n].box[1] >= U
                    /\ CallOps[n].box[4] - CallOps[n].box[2] >= U
              /\ Within(Extent(CallOps[n]),
                        <<0, 0, (call.size - 1) * U, (call.size - 1) * U>>)
        /\ call.kind = "capture" =>
              /\ Cardinality(IndicesOf("viewfinder")) = 1
              /\ Extent(TheOp("viewfinder"))[4] < Extent(TheOp("body"))[2]
        /\ call.kind = "assignments" =>
              /\ Cardinality(IndicesOf("checkbox")) = Rows
              /\ Cardinality(IndicesOf("text_line")) = Rows
              /\ \A n \in 1..Len(CallOps) :
                    CallOps[n].part \in {"checkbox", "checkmark", "text_line"} =>
                        Within(Extent(CallOps[n]), Extent(TheOp("document")))

\* the export has the 72 x 72 primary icon, the smallest it makes, returned
C27_Witness ==
    /\ pc = "main_call" /\ HasReturned /\ call.kind = "fiber" /\ call.size = 72
    /\ Fiber(72).point_size = 2
    /\ Len(CallOps) = 28 + 1 + 1 + 114 + 1 + 8

---------------------------------------------------------------------------
(* Properties of add_to_archon_ram, checked under SpecArchon               *)

\* the positions of archon_activate.main inside add_to_archon_ram
RamPcs == {"ram", "ram_source", "ram_items"}

\* C21: add_to_archon_ram never raises: from every position inside it control
\* stays inside it or returns to main at the creation of the MCP
\* configuration; a failure of the import, the connection or the source insert
\* returns None; a failed insert of a knowledge item goes on to the next item;
\* and whenever a source id is returned all five items were gone through
C21_RamNeverRaises ==
    [][(script.name = "activate" /\ script.pc \in RamPcs) =>
          /\ script'.name = "activate"
          /\ script'.pc \in RamPcs \cup {"mcp"}
          /\ script'.pc = "mcp" => (script'.source_id = 0 \/ script'.i = KnowledgeItems)
          /\ (script.pc = "ram_items" /\ script.i < KnowledgeItems) =>
                (script'.pc = "ram_items" /\ script'.i = script.i + 1)
          /\ (script.i > 0 \/ script'.i > 0) => script'.source_id # 0]_vars

\* add_to_archon_ram has returned its source id although three of the five
\* inserts of knowledge items failed
C21_Witness ==
    /\ script.name = "activate" /\ script.pc = "mcp"
    /\ script.source_id # 0 /\ script.i = KnowledgeItems
    /\ Len(store.sources) = 1 /\ Len(store.items) = 2

\* the rows of archon_ram_knowledge_sources named 'FibreField Mobile PWA'
NamedRows == {k \in 1..Len(store.sources) : store.sources[k].name = "FibreField Mobile PWA"}

\* C22: whatever number of runs of add_to_archon_ram have been made one after
\* another against the store, it holds at most one row named 'FibreField
\* Mobile PWA', exactly one as soon as a run has got a source id, which is then
\* the id of that row; and every knowledge item refers to the id of that row
C22_OneSourceRow ==
    /\ Cardinality(NamedRows) <= 1
    /\ \A n \in 1..Len(store.items) :
          \E k \in NamedRows : store.sources[k].id = store.items[n]
    /\ (script.name = "activate" /\ script.source_id # 0) =>
          /\ Cardinality(NamedRows) = 1
          /\ \A k \in NamedRows : store.sources[k].id = script.source_id

\* a second run has found the row of the first and added items to it
C22_Witness ==
    /\ host.ran = <<"activate">>
    /\ script.name = "activate" /\ script.pc = "mcp" /\ script.source_id # 0
    /\ Cardinality(NamedRows) = 1
    /\ Len(store.items) > KnowledgeItems

---------------------------------------------------------------------------
(* Properties of register_agents.main, checked under SpecArchon            *)

\* the ids of the INSERT statements into archon_agents_v3 of the SQL file
SqlAgentIds ==
    LET stmts == SelectSeq(archon.sql, LAMBDA st : st.table = "archon_agents_v3")
    IN  [k \in 1..Len(stmts) |-> stmts[k].id]

\* C23: when register_agents.main has written both files, every agent has the
\* same id in its INSERT statement as in its JSON record, and the number of
\* records generated equals the number of INSERT statements for agents
C23_SameRecordsInBothFiles ==
    (script.name = "register" /\ script.pc = "done") =>
        /\ Len(SqlAgentIds) = Len(archon.json)
        /\ Len(archon.json) = script.agents
        /\ \A k \in 1..Len(archon.json) : SqlAgentIds[k] = archon.json[k]

---------------------------------------------------------------------------
(* The two writers of initial_tasks.json, checked under SpecArchon         *)

\* C24: when ArchonMCPSetup.create_initial_tasks and create_initial_tasks.main
\* have both run in the project directory, in either order, initial_tasks.json
\* passes the 'at least 5 tasks' check of test_project_setup
C24_LastWriterPassesCheck ==
    (/\ script = NoScript
     /\ \E i, j \in 1..Len(host.ran) : host.ran[i] = "setup" /\ host.ran[j] = "tasks") =>
        InitialTasksCheck(project)
=============================================================================
